---- MODULE Spec2Model ----
(***************************************************************************)
(* The middleman's two streaming-reduction pipelines, Diffusion            *)
(* (src/middleman/diffusion.cpp) and Heatload                              *)
(* (src/middleman/heatloadcalc.cpp), run by a fixed group of MPI ranks.    *)
(* A behaviour runs one pipeline on comm_size ranks.  A rank's step() call *)
(* is cut at its blocking collectives: the code before the first           *)
(* collective is one action, every collective is one action taken by all   *)
(* ranks together, the code after the last collective is one action.       *)
(* Doubles and floats are modelled by integers (exact sums).               *)
(***************************************************************************)
EXTENDS Integers, Sequences, FiniteSets, TLC

VARIABLES
    contract,    \* the upstream stream keeps its input contract (ids, alignment)
    pipeline,    \* "diffusion" or "heatload": the object the ranks drive
    comm_size,   \* MPI_Comm_size
    pc,          \* per rank: "call" | "coll" | "post" | "done" | "finalized"
    ncall,       \* per rank: number of step() calls made
    status,      \* per rank: StepStatus of the last reader.BeginStep()
    istep,       \* per rank: this->istep
    trace,       \* per rank: operations of the current (or last) step() call
    prog,        \* per rank: collectives this rank still has to call in this step
    src,         \* the upstream stream: status returned to the k-th BeginStep
    stepData,    \* the upstream stream: blocks published for each Ready step
    rdOpen,      \* per rank: reader is between BeginStep and EndStep
    dupOpen,     \* per rank: unclosed BeginStep calls on dup_writer
    iter,        \* per rank: block indices iterated in the last Ready step
    bins,        \* per rank: the ten EntityBin vectors of Diffusion
    first,       \* static bool first of Diffusion::output
    persisted,   \* snapshots written by Diffusion::output (xgc.diffusion.bp)
    wopen,       \* rank 0's writer is between BeginStep and EndStep
    wlog,        \* the calls made on output_io and writer, in order
    oob,         \* per rank: indices outside [0, ntriangle) used on the ten vectors
    loc,         \* per rank, per species: the flat local columns of Heatload::step
    tot,         \* rank 0, per species: the gathered *_total columns
    len_list,    \* per rank: len_list
    displacement_list,  \* per rank: displacement_list
    esc,         \* per rank, per species: iesc / eesc
    div,         \* per rank, per species: idiv / ediv
    proposed,    \* per rank, per species: the particles handed to add()
    db,          \* per rank, per species: iesc_db / eesc_db
    calc,        \* per rank, per species: what heatload_calc was handed in this call
    past,        \* per rank: what a read past the end of a local column gives
    used,        \* per MPI_Gatherv: the recvcounts and displs rank 0 passed to it
    closed,      \* per rank: the Close calls of finalize(), with what each found
    asked,       \* per rank: the step index last passed to reader.BlocksInfo
    drv          \* main of the command-line driver: its istep, its place, its calls

dvars == <<bins, first, persisted, wopen, wlog, oob>>
hvars == <<loc, tot, len_list, displacement_list, esc, div, proposed, db, calc, past, used>>

----------------------------------------------------------------------------
(* Bounds *)
MaxWorkers == 2     \* comm_size ranges over 1..MaxWorkers
MaxCalls == 2       \* step() calls per rank
MaxDriverCalls == 4 \* heatload_step calls of main
MaxRet == 2         \* heatload_step returns a value in -MaxRet .. MaxRet
ntriangle == 2      \* n_t read from xgc.mesh.bp

(* Program constants *)
NCOL == 11
NPHASE == 11
NFIELD == 10

Workers == 0 .. (comm_size - 1)
StepStatus == {"OK", "NotReady", "EndOfStream"}

\* GET(X, i, j) X[i * NCOL + j], on a 1-based sequence
GET(X, i, j) == X[i * NCOL + j + 1]

\* the ten members of Diffusion in the order of reset(), step() and output()
FieldNames == <<"i_dr_avg", "i_dr_squared_average", "i_dE_avg",
                "i_dE_squared_average", "i_marker_den",
                "e_dr_avg", "e_dr_squared_average", "e_dE_avg",
                "e_dE_squared_average", "e_marker_den">>

RECURSIVE Product(_)
Product(s) == IF s = <<>> THEN 1 ELSE Head(s) * Product(Tail(s))

Range(s) == {s[k] : k \in DOMAIN s}

RECURSIVE Flatten(_)
Flatten(ss) == IF ss = <<>> THEN <<>> ELSE Head(ss) \o Flatten(Tail(ss))

----------------------------------------------------------------------------
(* Upstream data of the diffusion stream: rows of NCOL numbers,            *)
(* <<triangle, five ion fields, five electron fields>>.                    *)
RowA == <<0, 1, 2, 3, 4, 5, 6, 7, 8, 9, 10>>
RowB == <<1, 10, 20, 30, 40, 50, 60, 70, 80, 90, 100>>
RowC == <<0, 100, 200, 300, 400, 500, 600, 700, 800, 900, 1000>>

DBlock(rows) == [Count |-> <<Len(rows), NCOL>>, table |-> Flatten(rows)]

\* steps of the tracer_diag stream: the block list of the variable "table"
DiffInputs ==
    { [table |-> <<>>],
      [table |-> <<DBlock(<<RowA, RowC>>)>>],
      [table |-> <<DBlock(<<RowA>>), DBlock(<<RowB, RowA>>)>>],
      [table |-> <<DBlock(<<>>), DBlock(<<RowB>>), DBlock(<<RowC, RowB>>)>>] }

\* a row whose leading id is one past the last triangle
RowD == [j \in 1 .. NCOL |-> IF j = 1 THEN ntriangle ELSE j]

\* steps that break the contract of the tracer_diag stream
BadDiffInputs ==
    { [table |-> <<DBlock(<<RowA, RowD>>), DBlock(<<RowB>>)>>] }

DiffStream(kept) == IF kept THEN DiffInputs ELSE DiffInputs \cup BadDiffInputs

----------------------------------------------------------------------------
(* util.hpp split_vector: not among the sources; modelled from the         *)
(* BlockPartitioner contract (remainder blocks go to the earliest ranks).  *)
split_vector(nblocks, size, rank) ==
    LET q == nblocks \div size
        m == nblocks % size
    IN  << rank * q + (IF rank < m THEN rank ELSE m),
           q + (IF rank < m THEN 1 ELSE 0) >>

\* the loop started one block late: for (int i = offset + 1; ...)
LoopIndices_late(offset, nblock) == [k \in 1 .. (nblock - 1) |-> offset + k]

\* for (int i = offset; i < offset + nblock; i++)
LoopIndices(offset, nblock) == [k \in 1 .. nblock |-> offset + k - 1]

\* reset without the std::fill calls: resize keeps the elements it has
reset_nofill(b) ==
    IF b = <<>> THEN [f \in 1 .. NFIELD |-> [e \in 0 .. (ntriangle - 1) |-> 0]] ELSE b

\* Diffusion::reset
reset(b) == [f \in 1 .. NFIELD |-> [e \in 0 .. (ntriangle - 1) |-> 0]]

\* the row loop with = in place of +=
AddRow_assign(b, table, k) ==
    LET itri == GET(table, k, 0)
    IN  [f \in 1 .. NFIELD |-> [b[f] EXCEPT ![itri] = GET(table, k, f)]]

\* one pass of the row loop (lines 170-197)
AddRow(b, table, k) ==
    LET itri == GET(table, k, 0)
    IN  [f \in 1 .. NFIELD |-> [b[f] EXCEPT ![itri] = @ + GET(table, k, f)]]

RECURSIVE AddRows(_, _, _, _)
AddRows(b, table, k, nrow) ==
    IF k >= nrow THEN b ELSE AddRows(AddRow(b, table, k), table, k + 1, nrow)

\* the leading ids of the rows of the blocks idx that are outside
\* [0, ntriangle): this->X[itri] of lines 186-196 is not range-checked
RECURSIVE OutOfRangeIds(_, _)
OutOfRangeIds(block_list, idx) ==
    IF idx = <<>> THEN {}
    ELSE LET table == block_list[Head(idx) + 1].table
         IN  ({GET(table, k, 0) : k \in 0 .. (Len(table) \div NCOL - 1)}
                 \ (0 .. (ntriangle - 1)))
             \cup OutOfRangeIds(block_list, Tail(idx))

\* what X[itri] += v with itri outside the vector can do: the process is
\* stopped by a fault, the access falls on memory that is not part of the
\* ten vectors, or it falls on a slot of them
Outcomes(ids) ==
    IF ids = {} THEN {[kind |-> "none", slot |-> 0]}
    ELSE {[kind |-> "abort", slot |-> 0], [kind |-> "stray", slot |-> 0]}
         \cup {[kind |-> "alias", slot |-> e] : e \in 0 .. (ntriangle - 1)}

\* the rows of a table as the vectors see them under outcome ub
RECURSIVE Landed(_, _, _)
Landed(table, k, ub) ==
    IF k >= Len(table) \div NCOL THEN <<>>
    ELSE LET row == SubSeq(table, k * NCOL + 1, (k + 1) * NCOL)
         IN  (IF row[1] \in 0 .. (ntriangle - 1) THEN row
              ELSE IF ub.kind = "alias" THEN [row EXCEPT ![1] = ub.slot]
              ELSE <<>>)
             \o Landed(table, k + 1, ub)

Landing(block_list, ub) ==
    [k \in DOMAIN block_list |-> [block_list[k] EXCEPT !.table = Landed(@, 0, ub)]]

\* the table a block leaves in the local vector: fetched only if ncount > 0
Fetched(block) == IF Product(block.Count) > 0 THEN block.table ELSE <<>>

ConsumeBlock(b, block) ==
    LET table == Fetched(block)
        nrow == Len(table) \div NCOL
    IN  AddRows(b, table, 0, nrow)

RECURSIVE ConsumeBlocks(_, _, _)
ConsumeBlocks(b, block_list, idx) ==
    IF idx = <<>> THEN b
    ELSE ConsumeBlocks(ConsumeBlock(b, block_list[Head(idx) + 1]), block_list, Tail(idx))

\* the loop body with the rows read before the fetch is performed
BlockEvents_readFirst(block) ==
    (IF Product(block.Count) > 0
     THEN <<"SetBlockSelection", "Get", "rows", "PerformGets", "dup.Put">>
     ELSE <<>>)

\* lines 141-197: the calls made for one block; "rows" is the row loop when
\* it reads at least one row of the table
BlockEvents(block) ==
    (IF Product(block.Count) > 0
     THEN <<"SetBlockSelection", "Get", "PerformGets", "dup.Put">>
     ELSE <<>>)
    \o (IF Len(Fetched(block)) \div NCOL > 0 THEN <<"rows">> ELSE <<>>)

RECURSIVE BlocksEvents(_, _)
BlocksEvents(block_list, idx) ==
    IF idx = <<>> THEN <<>>
    ELSE BlockEvents(block_list[Head(idx) + 1]) \o BlocksEvents(block_list, Tail(idx))

\* the ten vec_reduce calls of a Ready step, in program order
DiffCollectives == FieldNames

\* the reductions skipped by a rank that read no row
DiffusionProgram_skipEmpty(total_nrow) == IF total_nrow = 0 THEN <<>> ELSE DiffCollectives

\* the collectives a rank calls after reading total_nrow rows: lines 205-220
\* are guarded by the status alone
DiffusionProgram(total_nrow) == DiffCollectives

\* lines 121-125 and 199-200 around the block loop, in program order
DiffusionHead == <<"BeginStep", "dup.BeginStep", "reset", "split_vector">>
DiffusionAfterLoop == <<"EndStep", "dup.EndStep">>

\* the tail without the test of rank
DiffusionTail_everyRank(rank) == <<"output", "istep++">>

\* lines 222-228 on rank 0 and on the other ranks
DiffusionTail(rank) == IF rank = 0 THEN <<"output", "istep++">> ELSE <<"istep++">>

\* reader.BlocksInfo(var, step): the blocks of the variable in that step of
\* the stream, none if the stream has no such step
BlocksInfo(data, var, step) ==
    IF step + 1 \in DOMAIN data THEN data[step + 1][var] ELSE <<>>

\* the reader's step is open after a BeginStep that returned OK until EndStep
RECURSIVE ReaderAfter(_, _)
ReaderAfter(open, events) ==
    IF events = <<>> THEN open
    ELSE ReaderAfter(IF Head(events) = "EndStep" THEN FALSE ELSE open, Tail(events))

\* dup_writer: the number of BeginStep calls not yet followed by EndStep
RECURSIVE DupAfter(_, _)
DupAfter(n, events) ==
    IF events = <<>> THEN n
    ELSE DupAfter(IF Head(events) = "dup.BeginStep" THEN n + 1
                  ELSE IF Head(events) = "dup.EndStep" THEN n - 1 ELSE n,
                  Tail(events))

RECURSIVE CountRows(_, _)
CountRows(block_list, idx) ==
    IF idx = <<>> THEN 0
    ELSE Len(Fetched(block_list[Head(idx) + 1])) \div NCOL + CountRows(block_list, Tail(idx))

FieldIndex(name) == CHOOSE f \in 1 .. NFIELD : FieldNames[f] = name

RECURSIVE SumOver(_, _, _, _)
SumOver(b, f, e, r) ==
    IF r < 0 THEN 0 ELSE b[r][f][e] + SumOver(b, f, e, r - 1)

\* MPI_Reduce(..., MPI_SUM, 0, comm): the element-wise sum arrives at rank 0
\* (in place); the other ranks' buffers are left as they are
vec_reduce(b, f) ==
    [b EXCEPT ![0][f] = [e \in 0 .. (ntriangle - 1) |-> SumOver(b, f, e, comm_size - 1)]]

\* one call on output_io or on writer
WriterCall(op, var) == [op |-> op, var |-> var]

DefineVariables == [f \in 1 .. NFIELD |-> WriterCall("DefineVariable", FieldNames[f])]

Puts == [f \in 1 .. NFIELD |-> WriterCall("Put", FieldNames[f])]

\* output() with the last Put left out
output_ninePuts(isFirst) ==
    (IF isFirst
     THEN <<WriterCall("DeclareIO", "diffusion")>> \o DefineVariables
              \o <<WriterCall("Open", "xgc.diffusion.bp")>>
     ELSE <<>>)
    \o <<WriterCall("BeginStep", "")>> \o SubSeq(Puts, 1, NFIELD - 1)
    \o <<WriterCall("EndStep", "")>>

\* output() without the test of first
output_redeclare(isFirst) ==
    <<WriterCall("DeclareIO", "diffusion")>> \o DefineVariables
        \o <<WriterCall("Open", "xgc.diffusion.bp")>>
        \o <<WriterCall("BeginStep", "")>> \o Puts \o <<WriterCall("EndStep", "")>>

\* Diffusion::output (lines 239-279): the calls it makes, in order; isFirst
\* is the value of its static flag first on entry
output(isFirst) ==
    (IF isFirst
     THEN <<WriterCall("DeclareIO", "diffusion")>> \o DefineVariables
              \o <<WriterCall("Open", "xgc.diffusion.bp")>>
     ELSE <<>>)
    \o <<WriterCall("BeginStep", "")>> \o Puts \o <<WriterCall("EndStep", "")>>

\* the writer after the calls: BeginStep opens an empty step, Put places the
\* named vector of b in the open step, EndStep publishes the step
RECURSIVE WriterAfter(_, _, _)
WriterAfter(w, calls, b) ==
    IF calls = <<>> THEN w
    ELSE LET c == Head(calls)
             f == FieldIndex(c.var)
             w1 == CASE c.op = "BeginStep" -> [w EXCEPT !.open = TRUE, !.cur = <<>>]
                     [] c.op = "Put" -> [w EXCEPT !.cur = (f :> b[f]) @@ @]
                     [] c.op = "EndStep" ->
                            [w EXCEPT !.open = FALSE, !.steps = Append(@, w.cur)]
                     [] OTHER -> w
         IN  WriterAfter(w1, Tail(calls), b)

----------------------------------------------------------------------------
(* Heatload (src/middleman/heatloadcalc.cpp)                               *)

\* GET(X, i, j) X[i * NPHASE + j] of heatloadcalc.cpp, on a 1-based sequence
GET_PHASE(X, i, j) == X[i * NPHASE + j + 1]

Species == {"i", "e"}
ColNames == <<"gid", "flag", "step", "dw", "phase">>

\* one upstream particle: its five column entries all carry the tag p
Ptl(p, fl) ==
    [gid |-> p, flag |-> fl, step |-> 10 + p, dw |-> 20 + p,
     phase |-> [j \in 1 .. NPHASE |-> 100 * p + j]]

\* a published block: the five column arrays of its particles
HBlock(ps) ==
    [Count |-> <<Len(ps)>>,
     gid |-> [k \in 1 .. Len(ps) |-> ps[k].gid],
     flag |-> [k \in 1 .. Len(ps) |-> ps[k].flag],
     step |-> [k \in 1 .. Len(ps) |-> ps[k].step],
     dw |-> [k \in 1 .. Len(ps) |-> ps[k].dw],
     phase |-> Flatten([k \in 1 .. Len(ps) |-> ps[k].phase])]

\* steps of the escaped_ptls stream: block lists of ions and of electrons
HeatInputs ==
    { [i |-> <<>>, e |-> <<>>],
      [i |-> <<HBlock(<<Ptl(1, 2), Ptl(2, 1)>>)>>,
       e |-> <<HBlock(<<Ptl(3, 0)>>), HBlock(<<>>), HBlock(<<Ptl(4, 3), Ptl(1, 0)>>)>>],
      [i |-> <<HBlock(<<Ptl(1, 0)>>), HBlock(<<Ptl(2, 2), Ptl(2, 3)>>)>>,
       e |-> <<HBlock(<<Ptl(5, 2)>>)>>] }

\* a block whose flag column lacks its last entry
ShortFlag(block) == [block EXCEPT !.flag = SubSeq(@, 1, Len(@) - 1)]

\* steps that break the contract of the escaped_ptls stream
BadHeatInputs ==
    { [i |-> <<ShortFlag(HBlock(<<Ptl(1, 0), Ptl(2, 2)>>))>>,
       e |-> <<HBlock(<<Ptl(3, 0)>>)>>] }

HeatStream(kept) == IF kept THEN HeatInputs ELSE HeatInputs \cup BadHeatInputs

EmptyCols == [gid |-> <<>>, flag |-> <<>>, step |-> <<>>, dw |-> <<>>, phase |-> <<>>]

\* Flags fl(flag1): flags.hpp is not among the sources; the escape state is
\* one bit of the flag word
Flags(flag1) == [escaped |-> (flag1 \div 2) % 2 = 1]

\* lines 102-122: the five Get calls, PerformGets and the five inserts
HConsumeBlock(c, block) ==
    IF Product(block.Count) > 0
    THEN [gid |-> c.gid \o block.gid,
          flag |-> c.flag \o block.flag,
          step |-> c.step \o block.step,
          dw |-> c.dw \o block.dw,
          phase |-> c.phase \o block.phase]
    ELSE c

RECURSIVE HConsumeBlocks(_, _, _)
HConsumeBlocks(c, block_list, idx) ==
    IF idx = <<>> THEN c
    ELSE HConsumeBlocks(HConsumeBlock(c, block_list[Head(idx) + 1]), block_list, Tail(idx))

HBlockEvents(block) ==
    IF Product(block.Count) > 0
    THEN <<"SetBlockSelection", "Get", "PerformGets", "insert">>
    ELSE <<>>

RECURSIVE HBlocksEvents(_, _)
HBlocksEvents(block_list, idx) ==
    IF idx = <<>> THEN <<>>
    ELSE HBlockEvents(block_list[Head(idx) + 1]) \o HBlocksEvents(block_list, Tail(idx))

\* lines 76-124 (ions) and 126-174 (electrons) for one rank
HLocal(block_list, rank) ==
    LET slice == split_vector(Len(block_list), comm_size, rank)
        idx == LoopIndices(slice[1], slice[2])
    IN  [cols |-> HConsumeBlocks(EmptyCols, block_list, idx),
         idx |-> idx,
         events |-> <<"split_vector">> \o HBlocksEvents(block_list, idx)]

\* the blocking collectives of a Ready step, in program order (lines 181-260, 398-399)
SpeciesCollectives(sp) ==
    << "Allgather_" \o sp, "Gatherv_" \o sp \o "gid", "Gatherv_" \o sp \o "flag",
       "Gatherv_" \o sp \o "step", "Gatherv_" \o sp \o "dw", "Gatherv_" \o sp \o "phase" >>

HeatCollectives ==
    SpeciesCollectives("i") \o SpeciesCollectives("e")
        \o <<"ptlmap_sync_iesc", "ptlmap_sync_eesc">>

\* the collectives a rank calls with igid.size() = ni and egid.size() = ne:
\* lines 176-260 and 398-399 are not guarded by the local data
HeatloadProgram(ni, ne) == HeatCollectives

Gathers == {SpeciesCollectives(sp)[k + 1] : sp \in Species, k \in 1 .. 5}

\* the tail without reader.EndStep()
HeatloadTail_noEnd ==
    <<"iesc_db.push_back", "eesc_db.push_back", "heatload_calc_i",
      "heatload_calc_e", "output", "istep++">>

\* the tail with reader.EndStep() first, as in Diffusion::step
HeatloadTail_endFirst ==
    <<"EndStep", "iesc_db.push_back", "eesc_db.push_back", "heatload_calc_i",
      "heatload_calc_e", "output", "istep++">>

\* the tail with heatload_calc called before the push_back calls
HeatloadTail_calcFirst ==
    <<"heatload_calc_i", "heatload_calc_e", "iesc_db.push_back",
      "eesc_db.push_back", "output", "EndStep", "istep++">>

\* lines 409-421, in program order
HeatloadTail ==
    <<"iesc_db.push_back", "eesc_db.push_back", "heatload_calc_i",
      "heatload_calc_e", "output", "EndStep", "istep++">>

\* int ntotal = 0; for (...) { displacement_list[i] = ntotal; ntotal += len_list[i]; }
RECURSIVE Total(_, _)
Total(lens, n) == IF n = 0 THEN 0 ELSE lens[n - 1] + Total(lens, n - 1)

\* the loop with the two statements swapped: ntotal += ...; displacement_list[i] = ntotal;
Displacements_swapped(lens) == [k \in DOMAIN lens |-> Total(lens, k + 1)]

Displacements(lens) == [k \in DOMAIN lens |-> Total(lens, k)]

\* the rescaling loop left out
ScaleLengths_none(lens) == lens

\* for (...) len_list[i] = len_list[i] * NPHASE;
ScaleLengths(lens) == [k \in DOMAIN lens |-> lens[k] * NPHASE]

Zeros(n) == [k \in 1 .. n |-> 0]

\* MPI_Gatherv at the root: the first recvcounts[k] elements sent by rank k are
\* stored from recvbuf[displs[k]] on
Gatherv(send, recvbuf, recvcounts, displs) ==
    [j \in 1 .. Len(recvbuf) |->
        IF \E k \in DOMAIN recvcounts :
              /\ displs[k] < j /\ j <= displs[k] + recvcounts[k]
              /\ j - displs[k] <= Len(send[k])
        THEN LET k == CHOOSE k \in DOMAIN recvcounts :
                        /\ displs[k] < j /\ j <= displs[k] + recvcounts[k]
                        /\ j - displs[k] <= Len(send[k])
             IN  send[k][j - displs[k]]
        ELSE recvbuf[j]]

\* struct Particle iptl; iptl.gid = ...; ... iptl.dw = ...; (lines 266-281, 335-350)
Particle(c, k) ==
    [gid |-> c.gid[k + 1], flag |-> c.flag[k + 1], esc_step |-> c.step[k + 1],
     r |-> GET_PHASE(c.phase, k, 0), z |-> GET_PHASE(c.phase, k, 1),
     phi |-> GET_PHASE(c.phase, k, 2), rho |-> GET_PHASE(c.phase, k, 3),
     w1 |-> GET_PHASE(c.phase, k, 4), w2 |-> GET_PHASE(c.phase, k, 5),
     mu |-> GET_PHASE(c.phase, k, 6), w0 |-> GET_PHASE(c.phase, k, 7),
     f0 |-> GET_PHASE(c.phase, k, 8), psi |-> GET_PHASE(c.phase, k, 9),
     B |-> GET_PHASE(c.phase, k, 10), dw |-> c.dw[k + 1]]

\* if (fl.escaped) add(iesc, iptl);   (lines 283-294)
ToEscaped(ptl) == Flags(ptl.flag).escaped

\* push_back without the test
ToDivertor_all(ptl) == TRUE

\* if (!fl.escaped) idiv.push_back(iptl);   (lines 352-361)
ToDivertor(ptl) == ~ Flags(ptl.flag).escaped

\* the list of the previous call kept
FreshList_kept(old) == old

\* std::vector<Particle> idiv, ediv declared in step(): empty at every call
\* (lines 45-46)
FreshList(old) == <<>>

\* the loops of lines 333-395 index iflag, istep, idw and iphase up to
\* igid.size(): a column shorter than that is read past its end
ReadsPastEnd(c) ==
    \/ Len(c.flag) < Len(c.gid) \/ Len(c.step) < Len(c.gid) \/ Len(c.dw) < Len(c.gid)
    \/ Len(c.phase) < NPHASE * Len(c.gid)

\* what a read past the end of a vector can do: the process is stopped by a
\* fault, or the read gives whatever lies behind the vector
PastOutcomes(short) ==
    IF ~ short THEN {[trap |-> FALSE, value |-> 0]}
    ELSE {[trap |-> TRUE, value |-> 0]}
         \cup {[trap |-> FALSE, value |-> v] : v \in {0, 2}}

PadTo(seq, n, v) == [k \in 1 .. (IF Len(seq) < n THEN n ELSE Len(seq)) |->
                        IF k <= Len(seq) THEN seq[k] ELSE v]

\* the local columns as the loops of lines 333-395 read them
AsRead(c, m) ==
    [gid |-> c.gid,
     flag |-> PadTo(c.flag, Len(c.gid), m.value),
     step |-> PadTo(c.step, Len(c.gid), m.value),
     dw |-> PadTo(c.dw, Len(c.gid), m.value),
     phase |-> PadTo(c.phase, NPHASE * Len(c.gid), m.value)]

\* lines 264-295 and 297-328: the particles rank 0 hands to add(), in index order
RECURSIVE EscapedOf(_, _)
EscapedOf(c, k) ==
    IF k >= Len(c.gid) THEN <<>>
    ELSE (IF ToEscaped(Particle(c, k)) THEN <<Particle(c, k)>> ELSE <<>>)
         \o EscapedOf(c, k + 1)

\* lines 333-362 and 365-395: the particles pushed back to idiv / ediv
RECURSIVE DivertorOf(_, _)
DivertorOf(c, k) ==
    IF k >= Len(c.gid) THEN <<>>
    ELSE (IF ToDivertor(Particle(c, k)) THEN <<Particle(c, k)>> ELSE <<>>)
         \o DivertorOf(c, k + 1)

\* add(iesc, iptl): particles.hpp is not among the sources; a map keyed by
\* gid that keeps the entry it already has
add(m, ptl) ==
    IF ptl.gid \in DOMAIN m THEN m
    ELSE [g \in DOMAIN m \cup {ptl.gid} |-> IF g = ptl.gid THEN ptl ELSE m[g]]

RECURSIVE AddAll(_, _)
AddAll(m, ptls) == IF ptls = <<>> THEN m ELSE AddAll(add(m, Head(ptls)), Tail(ptls))

EmptyMap == [g \in {} |-> 0]

\* ptlmap_sync(iesc, comm): not among the sources; every rank leaves with
\* the coordinator's set
ptlmap_sync(e, sp) == [r \in DOMAIN e |-> [e[r] EXCEPT ![sp] = e[0][sp]]]

----------------------------------------------------------------------------
\* heatload_calc has not been called in this step() call
\* main after heatload_init(&ad); int istep = 1;
DriverStart == [pc |-> "call", istep |-> 1, calls |-> <<>>, finalized |-> 0]

NoCall == [n |-> 0, div |-> <<>>, db |-> <<>>, istep |-> 0]

InitWith(kept) ==
    /\ contract = kept
    /\ pipeline \in {"diffusion", "heatload"}
    /\ comm_size \in 1 .. MaxWorkers
    /\ pc = [r \in Workers |-> "call"]
    /\ ncall = [r \in Workers |-> 0]
    /\ status = [r \in Workers |-> "none"]
    /\ istep = [r \in Workers |-> 0]
    /\ trace = [r \in Workers |-> <<>>]
    /\ prog = [r \in Workers |-> <<>>]
    /\ src = <<>>
    /\ stepData = <<>>
    /\ rdOpen = [r \in Workers |-> FALSE]
    /\ dupOpen = [r \in Workers |-> 0]
    /\ iter = [r \in Workers |->
                 IF pipeline = "diffusion" THEN [table |-> <<>>]
                 ELSE [i |-> <<>>, e |-> <<>>]]
    /\ bins = [r \in Workers |-> reset(<<>>)]
    /\ first = TRUE
    /\ persisted = <<>>
    /\ wopen = FALSE
    /\ wlog = <<>>
    /\ oob = [r \in Workers |-> {}]
    /\ loc = [r \in Workers |-> [sp \in Species |-> EmptyCols]]
    /\ tot = [sp \in Species |-> EmptyCols]
    /\ len_list = [r \in Workers |-> [k \in Workers |-> 0]]
    /\ displacement_list = [r \in Workers |-> [k \in Workers |-> 0]]
    /\ esc = [r \in Workers |-> [sp \in Species |-> EmptyMap]]
    /\ div = [r \in Workers |-> [sp \in Species |-> <<>>]]
    /\ proposed = [r \in Workers |-> [sp \in Species |-> <<>>]]
    /\ db = [r \in Workers |-> [sp \in Species |-> <<>>]]
    /\ calc = [r \in Workers |-> [sp \in Species |-> NoCall]]
    /\ past = [r \in Workers |-> [trap |-> FALSE, value |-> 0]]
    /\ used = [c \in Gathers |-> [counts |-> <<>>, displs |-> <<>>]]
    /\ drv = DriverStart
    /\ asked = [r \in Workers |-> -1]
    /\ closed = [r \in Workers |-> <<>>]

\* the state after the constructors, reading a stream that keeps its contract
Init == InitWith(TRUE)

\* the same, reading a stream that may publish ids out of range or columns
\* of unequal length
FaultInit == InitWith(FALSE)

\* reader.BeginStep() of rank r returns st; d is what the stream publishes
\* for the step when rank r is the first rank to see it
\* the number of step() calls made so far, Ready or not
StepIndex_calls(r) == ncall[r]

\* the step argument of reader.BlocksInfo: this->istep
StepIndex(r) == istep[r]

BeginStep(r, st, d, inputs) ==
    /\ IF ncall[r] < Len(src)
       THEN /\ st = src[ncall[r] + 1]
            /\ d = CHOOSE x \in inputs : TRUE
            /\ UNCHANGED <<src, stepData>>
       ELSE /\ src' = Append(src, st)
            /\ IF st = "OK"
               THEN stepData' = Append(stepData, d)
               ELSE d = (CHOOSE x \in inputs : TRUE) /\ UNCHANGED stepData
    /\ ncall' = [ncall EXCEPT ![r] = @ + 1]
    /\ status' = [status EXCEPT ![r] = st]

\* the test written as status != EndOfStream
IsOK_notEnded(st) == st # "EndOfStream"

\* if (status == adios2::StepStatus::OK)
IsOK(st) == st = "OK"

\* the value a step function hands to the driver loop for the status of its
\* BeginStep (heatload.hpp is not among the sources): 0 for a processed step,
\* a positive value for a step that is not ready, -1 at the end of the stream
step_ret(st) == CASE st = "OK" -> 0 [] st = "NotReady" -> 1 [] OTHER -> -1

\* the loop with the break taken on every non-zero value
LoopAfter_breakOnWait(ret) == IF ret = 0 THEN "call" ELSE "done"

\* while (1) of main (src/unnamed/part_000, lines 38-52): the loop calls the
\* step function again unless it returned -1
LoopAfter(ret) ==
    IF ret = 0 THEN "call"
    ELSE IF ret > 0 THEN "call"
    ELSE IF ret = -1 THEN "done"
    ELSE "call"

\* the caller's loop: step() is called again until the stream has ended
AfterReturn(st) == LoopAfter(step_ret(st))

\* the counter left as it is
Increment_none(i) == i

\* this->istep++
Increment(i) == i + 1

\* the new entry takes the place of the history
push_back_replace(history, e) == <<e>>

\* iesc_db.push_back(iesc), eesc_db.push_back(eesc)
push_back(history, e) == Append(history, e)

\* heatload_calc(idiv, ion, this->iesc_db): the list and the history it is
\* handed, and the value of istep at the call
Call(before, d, history, i) ==
    [n |-> before.n + 1, div |-> d, db |-> history, istep |-> i]

\* lines 409-421 run by a rank: h holds its iesc_db / eesc_db, what
\* heatload_calc has been handed and istep; e is its iesc / eesc and d its
\* idiv / ediv
RECURSIVE TailAfter(_, _, _, _)
TailAfter(h, events, e, d) ==
    IF events = <<>> THEN h
    ELSE LET ev == Head(events)
             h1 == CASE ev = "iesc_db.push_back" ->
                            [h EXCEPT !.db.i = push_back(@, e.i)]
                     [] ev = "eesc_db.push_back" ->
                            [h EXCEPT !.db.e = push_back(@, e.e)]
                     [] ev = "heatload_calc_i" ->
                            [h EXCEPT !.calc.i = Call(@, d.i, h.db.i, h.istep)]
                     [] ev = "heatload_calc_e" ->
                            [h EXCEPT !.calc.e = Call(@, d.e, h.db.e, h.istep)]
                     [] ev = "istep++" -> [h EXCEPT !.istep = Increment(@)]
                     [] OTHER -> h
         IN  TailAfter(h1, Tail(events), e, d)

\* every rank is blocked in its next collective, and that collective is c
AtCollective(c) ==
    \A r \in Workers : pc[r] = "coll" /\ prog[r] # <<>> /\ Head(prog[r]) = c

\* every rank leaves collective c and runs on (events ev[r]) to its next
\* one, but for the ranks that are stopped by a fault on the way
LeaveCollectiveBut(c, ev, stopped) ==
    /\ trace' = [r \in Workers |->
                    Append(trace[r], c) \o (IF r \in stopped THEN <<>> ELSE ev[r])]
    /\ prog' = [r \in Workers |-> Tail(prog[r])]
    /\ pc' = [r \in Workers |->
                 IF r \in stopped THEN "aborted"
                 ELSE IF Tail(prog[r]) = <<>> THEN "post" ELSE "coll"]

\* every rank leaves collective c and runs on (events ev[r]) to its next one
LeaveCollective(c, ev) == LeaveCollectiveBut(c, ev, {})

NoEvents == [r \in Workers |-> <<>>]

\* Diffusion::step up to the first vec_reduce (lines 115-210)
DiffusionStepBegin(r) ==
    /\ pipeline = "diffusion"
    /\ pc[r] = "call"
    /\ ncall[r] < MaxCalls
    /\ \E st \in StepStatus, d \in DiffStream(contract) :
        /\ BeginStep(r, st, d, DiffStream(contract))
        /\ IF IsOK(st)
           THEN LET block_list == BlocksInfo(stepData', "table", StepIndex(r))
                    slice == split_vector(Len(block_list), comm_size, r)
                    idx == LoopIndices(slice[1], slice[2])
                    ids == OutOfRangeIds(block_list, idx)
                IN  \E ub \in Outcomes(ids) :
                      LET stopped == ub.kind = "abort"
                          events == DiffusionHead \o BlocksEvents(block_list, idx)
                                      \o (IF stopped THEN <<>> ELSE DiffusionAfterLoop)
                          program == DiffusionProgram(CountRows(block_list, idx))
                      IN  /\ bins' = [bins EXCEPT ![r] =
                                 ConsumeBlocks(reset(@), Landing(block_list, ub), idx)]
                          /\ oob' = [oob EXCEPT ![r] = IF stopped THEN @ ELSE @ \cup ids]
                          /\ iter' = [iter EXCEPT ![r] = [table |-> idx]]
                          /\ trace' = [trace EXCEPT ![r] = events]
                          /\ rdOpen' = [rdOpen EXCEPT ![r] =
                                 ReaderAfter(st = "OK", Tail(events))]
                          /\ dupOpen' = [dupOpen EXCEPT ![r] = DupAfter(@, events)]
                          /\ prog' = [prog EXCEPT ![r] = program]
                          /\ pc' = [pc EXCEPT ![r] =
                                 IF stopped THEN "aborted"
                                 ELSE IF program = <<>> THEN "post" ELSE "coll"]
           ELSE LET events == SubSeq(DiffusionHead, 1, 2)
                IN  /\ trace' = [trace EXCEPT ![r] = events]
                    /\ rdOpen' = [rdOpen EXCEPT ![r] = ReaderAfter(st = "OK", Tail(events))]
                    /\ dupOpen' = [dupOpen EXCEPT ![r] = DupAfter(@, events)]
                    /\ pc' = [pc EXCEPT ![r] = AfterReturn(st)]
                    /\ UNCHANGED <<bins, iter, prog, oob>>
    /\ asked' = [asked EXCEPT ![r] = IF IsOK(status'[r]) THEN StepIndex(r) ELSE @]
    /\ UNCHANGED <<closed, drv, contract, pipeline, comm_size, istep, first, persisted, wopen, wlog>>
    /\ UNCHANGED hvars

\* one vec_reduce, entered by every rank (lines 211-220, 103-113)
DiffusionReduce ==
    /\ pipeline = "diffusion"
    /\ \E c \in Range(FieldNames) :
        /\ AtCollective(c)
        /\ bins' = vec_reduce(bins, FieldIndex(c))
        /\ LeaveCollective(c, NoEvents)
    /\ UNCHANGED <<closed, asked, drv, contract, pipeline, comm_size, ncall, status, istep, src, stepData,
                   rdOpen, dupOpen, iter, first, persisted, wopen, wlog, oob>>
    /\ UNCHANGED hvars

\* Diffusion::step after the last vec_reduce (lines 222-236), with output()
DiffusionStepEnd(r) ==
    /\ pipeline = "diffusion"
    /\ pc[r] = "post"
    /\ LET calls == IF "output" \in Range(DiffusionTail(r)) THEN output(first) ELSE <<>>
           w == WriterAfter([open |-> wopen, cur |-> <<>>, steps |-> persisted],
                            calls, bins[r])
       IN  /\ first' = (first /\ calls = <<>>)
           /\ persisted' = w.steps
           /\ wopen' = w.open
           /\ wlog' = wlog \o calls
    /\ trace' = [trace EXCEPT ![r] = @ \o DiffusionTail(r)]
    /\ istep' = [istep EXCEPT ![r] = Increment(@)]
    /\ pc' = [pc EXCEPT ![r] = AfterReturn(status[r])]
    /\ UNCHANGED <<closed, asked, drv, contract, pipeline, comm_size, ncall, status, prog, src, stepData,
                   rdOpen, dupOpen, iter, bins, oob>>
    /\ UNCHANGED hvars

\* Heatload::step up to the first MPI_Allgather (lines 43-181)
HeatloadStepBegin(r) ==
    /\ pipeline = "heatload"
    /\ pc[r] = "call"
    /\ ncall[r] < MaxCalls
    /\ \E st \in StepStatus, d \in HeatStream(contract) :
        /\ BeginStep(r, st, d, HeatStream(contract))
        /\ div' = [div EXCEPT ![r] = [sp \in Species |-> FreshList(@[sp])]]
        /\ esc' = [esc EXCEPT ![r] = [sp \in Species |-> EmptyMap]]
        /\ proposed' = [proposed EXCEPT ![r] = [sp \in Species |-> <<>>]]
        /\ calc' = [calc EXCEPT ![r] = [sp \in Species |-> NoCall]]
        /\ IF IsOK(st)
           THEN LET ions == HLocal(BlocksInfo(stepData', "i", StepIndex(r)), r)
                    elec == HLocal(BlocksInfo(stepData', "e", StepIndex(r)), r)
                    program == HeatloadProgram(Len(ions.cols.gid), Len(elec.cols.gid))
                IN  /\ loc' = [loc EXCEPT ![r] = [i |-> ions.cols, e |-> elec.cols]]
                    /\ \E m \in PastOutcomes(ReadsPastEnd(ions.cols)
                                              \/ ReadsPastEnd(elec.cols)) :
                          past' = [past EXCEPT ![r] = m]
                    /\ iter' = [iter EXCEPT ![r] = [i |-> ions.idx, e |-> elec.idx]]
                    /\ len_list' = [len_list EXCEPT ![r] = [k \in Workers |-> 0]]
                    /\ displacement_list' =
                           [displacement_list EXCEPT ![r] = [k \in Workers |-> 0]]
                    /\ trace' = [trace EXCEPT ![r] =
                           <<"BeginStep">> \o ions.events \o elec.events]
                    /\ prog' = [prog EXCEPT ![r] = program]
                    /\ rdOpen' = [rdOpen EXCEPT ![r] = TRUE]
                    /\ pc' = [pc EXCEPT ![r] = IF program = <<>> THEN "post" ELSE "coll"]
           ELSE /\ trace' = [trace EXCEPT ![r] = <<"BeginStep">>]
                /\ pc' = [pc EXCEPT ![r] = AfterReturn(st)]
                /\ UNCHANGED <<loc, iter, len_list, displacement_list, prog, rdOpen,
                               past>>
    /\ asked' = [asked EXCEPT ![r] = IF IsOK(status'[r]) THEN StepIndex(r) ELSE @]
    /\ UNCHANGED <<closed, drv, contract, pipeline, comm_size, istep, dupOpen, tot, db, used>>
    /\ UNCHANGED dvars

\* MPI_Allgather of the local record counts, then the displacement table and
\* the allocation of the *_total vectors (lines 177-194, 221-236)
HeatloadAllgather ==
    /\ pipeline = "heatload"
    /\ \E sp \in Species :
        LET c == "Allgather_" \o sp
            lens == [k \in Workers |-> Len(loc[k][sp].gid)]
            ntotal == Total(lens, comm_size)
        IN  /\ AtCollective(c)
            /\ len_list' = [r \in Workers |-> lens]
            /\ displacement_list' = [r \in Workers |-> Displacements(lens)]
            /\ tot' = [tot EXCEPT ![sp] =
                          [gid |-> Zeros(ntotal), flag |-> Zeros(ntotal),
                           step |-> Zeros(ntotal), dw |-> Zeros(ntotal),
                           phase |-> Zeros(ntotal * NPHASE)]]
            /\ LeaveCollective(c, NoEvents)
    /\ UNCHANGED <<closed, asked, drv, contract, pipeline, comm_size, ncall, status, istep, src, stepData,
                   rdOpen, dupOpen, iter, loc, esc, div, proposed, db, calc, past, used>>
    /\ UNCHANGED dvars

\* the ranks whose read past the end of a column stops the process
Stopped ==
    {r \in Workers : past[r].trap /\ \E sp \in Species : ReadsPastEnd(loc[r][sp])}

\* one MPI_Gatherv to rank 0 and the code up to the next collective:
\* after the dw gather the table is rescaled for the phase gather
\* (lines 205-215, 247-257); after the electron phase gather rank 0 fills
\* iesc, eesc and every rank fills idiv, ediv (lines 262-395)
HeatloadGatherv ==
    /\ pipeline = "heatload"
    /\ \E sp \in Species, k \in 1 .. 5 :
        LET c == SpeciesCollectives(sp)[k + 1]
            col == ColNames[k]
            send == [w \in Workers |-> loc[w][sp][col]]
            last == (sp = "e" /\ col = "phase")
        IN  /\ AtCollective(c)
            /\ tot' = [tot EXCEPT ![sp][col] =
                          Gatherv(send, @, len_list[0], displacement_list[0])]
            /\ used' = [used EXCEPT ![c] =
                          [counts |-> len_list[0], displs |-> displacement_list[0]]]
            /\ IF col = "dw"
               THEN /\ len_list' = [r \in Workers |-> ScaleLengths(len_list[r])]
                    /\ displacement_list' =
                           [r \in Workers |-> Displacements(ScaleLengths(len_list[r]))]
               ELSE UNCHANGED <<len_list, displacement_list>>
            /\ IF last
               THEN /\ proposed' = [r \in Workers |-> [s \in Species |->
                           IF r = 0 THEN EscapedOf(tot'[s], 0) ELSE <<>>]]
                    /\ esc' = [r \in Workers |-> [s \in Species |->
                           AddAll(EmptyMap, proposed'[r][s])]]
                    /\ div' = [r \in Workers |-> [s \in Species |->
                           IF r \in Stopped THEN div[r][s]
                           ELSE div[r][s] \o DivertorOf(AsRead(loc[r][s], past[r]), 0)]]
                    /\ LeaveCollectiveBut(c, [r \in Workers |->
                           IF r = 0 THEN <<"add_esc", "push_back_div">>
                           ELSE <<"push_back_div">>], Stopped)
               ELSE /\ UNCHANGED <<proposed, esc, div>>
                    /\ LeaveCollective(c, NoEvents)
    /\ UNCHANGED <<closed, asked, drv, contract, pipeline, comm_size, ncall, status, istep, src, stepData,
                   rdOpen, dupOpen, iter, loc, db, calc, past>>
    /\ UNCHANGED dvars

\* ptlmap_sync(iesc, comm) / ptlmap_sync(eesc, comm) (lines 398-399)
HeatloadSync ==
    /\ pipeline = "heatload"
    /\ \E sp \in Species :
        LET c == "ptlmap_sync_" \o sp \o "esc"
        IN  /\ AtCollective(c)
            /\ esc' = ptlmap_sync(esc, sp)
            /\ LeaveCollective(c, NoEvents)
    /\ UNCHANGED <<closed, asked, drv, contract, pipeline, comm_size, ncall, status, istep, src, stepData,
                   rdOpen, dupOpen, iter, loc, tot, len_list, displacement_list,
                   div, proposed, db, calc, past, used>>
    /\ UNCHANGED dvars

\* Heatload::step after ptlmap_sync (lines 401-423)
HeatloadStepEnd(r) ==
    /\ pipeline = "heatload"
    /\ pc[r] = "post"
    /\ LET h == TailAfter([db |-> db[r], calc |-> calc[r], istep |-> istep[r]],
                          HeatloadTail, esc[r], div[r])
       IN  /\ db' = [db EXCEPT ![r] = h.db]
           /\ calc' = [calc EXCEPT ![r] = h.calc]
           /\ istep' = [istep EXCEPT ![r] = h.istep]
    /\ trace' = [trace EXCEPT ![r] = @ \o HeatloadTail]
    /\ rdOpen' = [rdOpen EXCEPT ![r] = ReaderAfter(@, HeatloadTail)]
    /\ pc' = [pc EXCEPT ![r] = AfterReturn(status[r])]
    /\ UNCHANGED <<closed, asked, drv, contract, pipeline, comm_size, ncall, status, prog, src, stepData,
                   dupOpen, iter, loc, tot, len_list, displacement_list, esc,
                   div, proposed, past, used>>
    /\ UNCHANGED dvars

\* the values heatload_step may hand back to main
Returns == (0 - MaxRet) .. MaxRet

\* the counter advanced after every call
CounterAfter_always(ret, i) == i + 1

\* if (ret == 0) istep++; of main: no other branch touches istep
CounterAfter(ret, i) == IF ret = 0 THEN i + 1 ELSE i

\* one pass of while (1): int ret = heatload_step(&ad, istep), then the
\* if / else if chain
DriverCall ==
    /\ drv.pc = "call"
    /\ Len(drv.calls) < MaxDriverCalls
    /\ \E ret \in Returns :
         drv' = [drv EXCEPT !.calls = Append(@, [arg |-> drv.istep, ret |-> ret]),
                            !.istep = CounterAfter(ret, @),
                            !.pc = LoopAfter(ret)]
    /\ UNCHANGED <<contract, pipeline, comm_size, pc, ncall, status, istep, trace,
                   prog, src, stepData, rdOpen, dupOpen, iter, dvars, hvars, asked, closed>>

\* after the break: heatload_finalize(&ad); return 0;
DriverFinalize ==
    /\ drv.pc = "done"
    /\ drv' = [drv EXCEPT !.finalized = @ + 1, !.pc = "returned"]
    /\ UNCHANGED <<contract, pipeline, comm_size, pc, ncall, status, istep, trace,
                   prog, src, stepData, rdOpen, dupOpen, iter, dvars, hvars, asked, closed>>

\* Engine::Close as the engine meets it: whether Open was ever called on the
\* engine, and how many steps begun on it have not been ended
Closing(engine, opened, unended) ==
    [engine |-> engine, opened |-> opened, unended |-> unended]

\* output() has run writer = output_io.Open(...)
WriterOpened == \E k \in DOMAIN wlog : wlog[k].op = "Open"

\* Diffusion::finalize (lines 93-101): reader.Close(), on rank 0
\* writer.Close(), then dup_writer.Close()
Diffusion_finalize(r) ==
    <<Closing("reader", TRUE, IF rdOpen[r] THEN 1 ELSE 0)>>
    \o (IF r = 0
        THEN <<Closing("writer", WriterOpened, IF wopen THEN 1 ELSE 0)>>
        ELSE <<>>)
    \o <<Closing("dup_writer", TRUE, dupOpen[r])>>

\* Heatload::finalize (lines 37-41): reader.Close()
Heatload_finalize(r) ==
    <<Closing("reader", TRUE, IF rdOpen[r] THEN 1 ELSE 0)>>

\* finalize() of the pipeline object, called by a rank once its loop of
\* step() calls has ended
Finalize(r) ==
    /\ pc[r] = "done"
    /\ closed' = [closed EXCEPT ![r] =
           IF pipeline = "diffusion" THEN Diffusion_finalize(r)
           ELSE Heatload_finalize(r)]
    /\ pc' = [pc EXCEPT ![r] = "finalized"]
    /\ UNCHANGED <<contract, pipeline, comm_size, ncall, status, istep, trace, prog,
                   src, stepData, rdOpen, dupOpen, iter, dvars, hvars, drv, asked>>

vars == <<contract, pipeline, comm_size, pc, ncall, status, istep, trace, prog, src,
          stepData, rdOpen, dupOpen, iter, bins, first, persisted, wopen, wlog,
          oob, loc, tot,
          len_list, displacement_list, esc, div, proposed, db, calc, past, used,
          drv, asked, closed>>

Next ==
    \/ \E r \in Workers : DiffusionStepBegin(r)
    \/ DiffusionReduce
    \/ \E r \in Workers : DiffusionStepEnd(r)
    \/ \E r \in Workers : HeatloadStepBegin(r)
    \/ HeatloadAllgather
    \/ HeatloadGatherv
    \/ HeatloadSync
    \/ \E r \in Workers : HeatloadStepEnd(r)
    \/ \E r \in Workers : Finalize(r)

Spec == Init /\ [][Next]_vars

\* the program on a stream that may break its input contract
FaultSpec == FaultInit /\ [][Next]_vars

\* main of the command-line driver, which drives Heatload
DriverInit == Init /\ pipeline = "heatload"

DriverNext == DriverCall \/ DriverFinalize

\* main runs on: once the loop is left, heatload_finalize is called
DriverSpec == DriverInit /\ [][DriverNext]_vars /\ WF_vars(DriverFinalize)
----------------------------------------------------------------------------
(* Properties *)

RECURSIVE ConcatRanks(_, _)
ConcatRanks(f, n) == IF n = 0 THEN <<>> ELSE ConcatRanks(f, n - 1) \o f[n - 1]

\* every rank is inside the same Ready step (between its first collective
\* and its return)
SameStep ==
    \A r \in Workers : pc[r] \in {"coll", "post"} /\ istep[r] = istep[0]

\* C1: in a Ready step of either pipeline the block indices the ranks
\* 0..comm_size-1 iterate over, taken in rank order, are 0, 1, ..., B-1 (the
\* ranges are contiguous, disjoint and cover the block list of every
\* variable), and two ranks' range lengths differ by at most 1.
C1_PartitionCoversBlocks ==
    SameStep =>
        \A v \in DOMAIN iter[0] :
            LET B == Len(stepData[istep[0] + 1][v])
            IN  /\ ConcatRanks([r \in Workers |-> iter[r][v]], comm_size)
                     = [k \in 1 .. B |-> k - 1]
                /\ \A r1, r2 \in Workers :
                     Len(iter[r1][v]) - Len(iter[r2][v]) \in {-1, 0, 1}

\* two ranks share three blocks unevenly, and one block list is shorter
\* than the group
C1_Witness ==
    /\ SameStep /\ comm_size = 2
    /\ \E v \in DOMAIN iter[0] : Len(iter[0][v]) = 2 /\ Len(iter[1][v]) = 1

CollectiveNames == Range(DiffCollectives) \cup Range(HeatCollectives)

\* C2: a step() call whose BeginStep returns a status other than OK leaves
\* every bin, both escaped-particle histories and every istep as they were,
\* enters no collective and writes nothing (no snapshot, no dup Put).
C2_NotReadyIsNoOp ==
    [][\A r \in Workers :
         (ncall'[r] = ncall[r] + 1 /\ status'[r] # "OK") =>
            /\ bins' = bins
            /\ db' = db
            /\ istep' = istep
            /\ persisted' = persisted
            /\ prog' = prog
            /\ pc'[r] \in {"call", "done", "finalized"}
            /\ \A k \in DOMAIN trace'[r] :
                 trace'[r][k] \notin CollectiveNames \cup {"output", "dup.Put", "reset"}
      ]_vars

\* a rank that has completed a Ready step sees NotReady on its next call
C2_Witness ==
    \E r \in Workers :
        /\ status[r] = "NotReady" /\ istep[r] = 1 /\ pc[r] = "call"
        /\ (pipeline = "diffusion" => bins[r] # reset(bins[r]))

\* all rows of a block list, block after block
RECURSIVE RowsOf(_)
RowsOf(block_list) ==
    IF block_list = <<>> THEN <<>>
    ELSE [k \in 1 .. (Len(Head(block_list).table) \div NCOL) |->
             SubSeq(Head(block_list).table, (k - 1) * NCOL + 1, k * NCOL)]
         \o RowsOf(Tail(block_list))

\* the sum of column f over the rows whose leading entry is e
RECURSIVE SumRows(_, _, _)
SumRows(rows, f, e) ==
    IF rows = <<>> THEN 0
    ELSE (IF Head(rows)[1] = e THEN Head(rows)[f + 1] ELSE 0) + SumRows(Tail(rows), f, e)

Reference(data) ==
    [f \in 1 .. NFIELD |-> [e \in 0 .. (ntriangle - 1) |-> SumRows(RowsOf(data.table), f, e)]]

\* C3: when the ten reductions of a Ready diffusion step are done, each of
\* rank 0's ten vectors holds at every slot e the sum of that field over all
\* rows of all blocks of the step with leading id e; so does every snapshot.
C3_BinsAreSums ==
    pipeline = "diffusion" =>
        /\ pc[0] = "post" => bins[0] = Reference(stepData[istep[0] + 1])
        /\ \A s \in DOMAIN persisted : persisted[s] = Reference(stepData[s])

\* two ranks, id 0 in blocks of both ranks and id 0 twice on rank 1
C3_Witness ==
    /\ pipeline = "diffusion" /\ comm_size = 2 /\ pc[0] = "post"
    /\ Len(stepData[istep[0] + 1].table) = 2
    /\ bins[0][1][0] = 2 /\ bins[1][1][0] = 1

\* C4: two consecutive Ready diffusion steps with the same input give the
\* same snapshot at rank 0.
C4_SameInputSameOutput ==
    pipeline = "diffusion" =>
        \A s \in DOMAIN persisted :
            (s + 1 \in DOMAIN persisted /\ stepData[s] = stepData[s + 1])
                => persisted[s] = persisted[s + 1]

\* the same non-empty input twice, on two ranks
C4_Witness ==
    /\ pipeline = "diffusion" /\ comm_size = 2
    /\ Len(persisted) >= 2
    /\ stepData[1] = stepData[2]
    /\ persisted[2][1][0] > 0
\* every rank has left the last MPI_Gatherv of the step and stands at
\* ptlmap_sync(iesc)
AfterGathers == AtCollective("ptlmap_sync_iesc")

LocalCounts(sp) == [k \in Workers |-> Len(loc[k][sp].gid)]

RECURSIVE SumBelow(_, _)
SumBelow(n, r) == IF r = 0 THEN 0 ELSE n[r - 1] + SumBelow(n, r - 1)

\* C5: after the gathers of a species rank 0 holds n_0 + ... + n_{W-1}
\* records, and record j of rank r is the record at index
\* n_0 + ... + n_{r-1} + j.
C5_GatherIsConcatenation ==
    AfterGathers =>
        \A sp \in Species :
            LET n == LocalCounts(sp)
            IN  /\ Len(tot[sp].gid) = SumBelow(n, comm_size)
                /\ \A r \in Workers : \A j \in 0 .. (n[r] - 1) :
                     Particle(tot[sp], SumBelow(n, r) + j) = Particle(loc[r][sp], j)

\* counts with a zero: ions 2 and 0, electrons 1 and 2
C5_Witness ==
    /\ AfterGathers /\ comm_size = 2
    /\ LocalCounts("i") = [k \in Workers |-> IF k = 0 THEN 2 ELSE 0]
    /\ LocalCounts("e") = [k \in Workers |-> IF k = 0 THEN 1 ELSE 2]

\* C6: in one Ready heatload step the four scalar gathers of a species are
\* made with that species' own counts and prefix sums, the phase gather with
\* both multiplied by 11, and every gathered column is the ranks' local
\* columns in rank order, so that index k of all five columns is one record.
C6_OneTablePerSpecies ==
    AfterGathers =>
        \A sp \in Species :
            LET n == LocalCounts(sp)
                d == [k \in Workers |-> SumBelow(n, k)]
            IN  /\ \A k \in 1 .. 4 :
                     used[SpeciesCollectives(sp)[k + 1]] = [counts |-> n, displs |-> d]
                /\ used[SpeciesCollectives(sp)[6]] =
                     [counts |-> [k \in Workers |-> 11 * n[k]],
                      displs |-> [k \in Workers |-> 11 * d[k]]]
                /\ \A k \in 1 .. 5 :
                     tot[sp][ColNames[k]] =
                        ConcatRanks([r \in Workers |-> loc[r][sp][ColNames[k]]], comm_size)

\* the two species have different tables and both ranks contribute phases
C6_Witness ==
    /\ AfterGathers /\ comm_size = 2
    /\ LocalCounts("i") # LocalCounts("e")
    /\ LocalCounts("i")[0] > 0 /\ LocalCounts("i")[1] > 0
    /\ Len(tot["i"].phase) = 33

RECURSIVE SumLen(_, _)
SumLen(f, n) == IF n = 0 THEN 0 ELSE Len(f[n - 1]) + SumLen(f, n - 1)

\* C7: when the ranks reach ptlmap_sync, every record a rank consumed in the
\* step is, if its escape bit is set, among the records handed to add() and
\* in no idiv/ediv, and otherwise in its rank's idiv/ediv and not handed to
\* add(); the two collections together hold as many records as were consumed.
C7_EscapedXorConfined ==
    AfterGathers =>
        \A sp \in Species :
            /\ \A r \in Workers : \A j \in 0 .. (Len(loc[r][sp].gid) - 1) :
                 LET p == Particle(loc[r][sp], j)
                 IN  IF Flags(p.flag).escaped
                     THEN /\ p \in Range(proposed[0][sp])
                          /\ \A q \in Workers : p \notin Range(div[q][sp])
                     ELSE /\ p \in Range(div[r][sp])
                          /\ \A q \in Workers : p \notin Range(proposed[q][sp])
            /\ SumLen([r \in Workers |-> proposed[r][sp]], comm_size)
                 + SumLen([r \in Workers |-> div[r][sp]], comm_size)
                 = SumBelow(LocalCounts(sp), comm_size)

\* rank 1 consumed an escaped and a confined electron
C7_Witness ==
    /\ AfterGathers /\ comm_size = 2
    /\ \E j, k \in DOMAIN loc[1]["e"].flag :
         Flags(loc[1]["e"].flag[j]).escaped /\ ~ Flags(loc[1]["e"].flag[k]).escaped
    /\ proposed[0]["e"] # <<>> /\ div[1]["e"] # <<>>

IsCollective(ev) == ev \in CollectiveNames
CollectivesOf(tr) == SelectSeq(tr, IsCollective)

FixedProgram == IF pipeline = "diffusion" THEN FieldNames ELSE HeatCollectives

\* the collectives a rank has called and still has to call in a Ready step
\* are the fixed sequence of its pipeline
SameCollectives ==
    \A r \in Workers :
        status[r] = "OK" =>
            CollectivesOf(trace[r]) \o (IF pc[r] = "coll" THEN prog[r] ELSE <<>>)
                = FixedProgram

\* C8: in every Ready step every rank calls the same collectives in the same
\* order whatever its local data, and ranks blocked in a collective
\* eventually all leave it (they leave a collective together).
C8_CollectivesMatch ==
    /\ []SameCollectives
    /\ (\E r \in Workers : pc[r] = "coll") ~> (\A r \in Workers : pc[r] # "coll")

\* a rank with an empty partition has gone through all collectives
C8_Witness ==
    \E r \in Workers :
        /\ pc[r] = "post" /\ status[r] = "OK"
        /\ \A v \in DOMAIN iter[r] : iter[r][v] = <<>>
        /\ \E q \in Workers : \E v \in DOMAIN iter[q] : iter[q][v] # <<>>

Count(tr, ev) == Cardinality({k \in DOMAIN tr : tr[k] = ev})
FirstPos(tr, evs) == CHOOSE k \in DOMAIN tr : tr[k] \in evs /\ \A j \in 1 .. (k - 1) : tr[j] \notin evs
AllBefore(tr, A, B) ==
    \A j, k \in DOMAIN tr : (tr[j] \in A /\ tr[k] \in B) => j < k

\* C9: on each rank's reader a step() call makes one BeginStep; EndStep is
\* called once, after it, when it returned OK and not at all otherwise, and
\* the step is closed when step() returns (before the next BeginStep).
C9_EndStepOncePerReadyStep ==
    \A r \in Workers :
        /\ Count(trace[r], "BeginStep") <= 1
        /\ Count(trace[r], "EndStep") <= (IF status[r] = "OK" THEN 1 ELSE 0)
        /\ AllBefore(trace[r], {"BeginStep"}, {"EndStep"})
        /\ rdOpen[r] = (status[r] = "OK" /\ Count(trace[r], "EndStep") = 0)
        /\ pc[r] \in {"call", "done", "finalized"} =>
             /\ ~ rdOpen[r]
             /\ status[r] = "OK" => Count(trace[r], "EndStep") = 1

\* a heatload rank has returned from a Ready step and a diffusion rank from
\* a NotReady one
C9_Witness ==
    \E r \in Workers :
        /\ pc[r] = "call"
        /\ \/ pipeline = "heatload" /\ status[r] = "OK" /\ istep[r] = 2
           \/ pipeline = "diffusion" /\ status[r] = "NotReady" /\ istep[r] = 1

Consumption == {"SetBlockSelection", "Get", "PerformGets", "dup.Put", "rows", "insert"}
Persistence == {"output"}

\* the rank has returned from a Ready step
Returned(r) == pc[r] = "call" /\ status[r] = "OK"

\* C10 as stated: in every Ready step of both pipelines the order is
\* BeginStep, split, local accumulation, collectives, persistence, EndStep,
\* istep++.
C10_Original ==
    \A r \in Workers :
        Returned(r) =>
            /\ AllBefore(trace[r], {"BeginStep"}, {"split_vector"})
            /\ FirstPos(trace[r], {"split_vector"}) < FirstPos(trace[r], {"istep++"})
            /\ AllBefore(trace[r], {"split_vector"} \cup Consumption, CollectiveNames)
            /\ AllBefore(trace[r], CollectiveNames, Persistence)
            /\ AllBefore(trace[r], CollectiveNames \cup Persistence, {"EndStep"})
            /\ AllBefore(trace[r], {"EndStep"}, {"istep++"})

\* C10 amended: in both pipelines BeginStep, the splits and the consumption
\* of the local blocks precede the collectives, the collectives precede the
\* persistence and istep++ comes last; Heatload calls EndStep after the
\* collectives and the persistence, Diffusion calls it after the block loop
\* and before the first collective.
C10_StepOrder ==
    \A r \in Workers :
        Returned(r) =>
            /\ AllBefore(trace[r], {"BeginStep"}, {"split_vector"})
            /\ AllBefore(trace[r], {"split_vector"} \cup Consumption, CollectiveNames)
            /\ AllBefore(trace[r], CollectiveNames, Persistence)
            /\ AllBefore(trace[r], CollectiveNames \cup Persistence \cup {"EndStep"}, {"istep++"})
            /\ Count(trace[r], "EndStep") = 1 /\ Count(trace[r], "istep++") = 1
            /\ CollectivesOf(trace[r]) # <<>>
            /\ IF pipeline = "heatload"
               THEN /\ AllBefore(trace[r], CollectiveNames \cup Persistence, {"EndStep"})
                    /\ Count(trace[r], "output") = 1
               ELSE /\ AllBefore(trace[r], {"split_vector"} \cup Consumption, {"EndStep"})
                    /\ AllBefore(trace[r], {"EndStep"}, CollectiveNames \cup Persistence)
                    /\ Count(trace[r], "output") = (IF r = 0 THEN 1 ELSE 0)

\* rank 0 of Diffusion has returned from a Ready step in which it consumed
\* blocks
C10_Witness ==
    /\ pipeline = "diffusion"
    /\ Returned(0)
    /\ \E k \in DOMAIN trace[0] : trace[0][k] = "PerformGets"

\* the calls of one persistence step on the writer
PersistenceStep == <<WriterCall("BeginStep", "")>> \o Puts \o <<WriterCall("EndStep", "")>>

RECURSIVE Repeat(_, _)
Repeat(seq, n) == IF n = 0 THEN <<>> ELSE seq \o Repeat(seq, n - 1)

IsStepCall(c) == c.op \in {"BeginStep", "Put", "EndStep"}

\* C11: rank 0 of Diffusion calls output() only after its ten vec_reduce
\* calls of the step have returned; the writer's calls are whole persistence
\* steps (BeginStep, the ten Puts, EndStep) and no step is left open; every
\* snapshot has all ten vectors and holds the reduced sums of its step.
C11_NoPartialPersistence ==
    pipeline = "diffusion" =>
        /\ ~ wopen
        /\ SelectSeq(wlog, IsStepCall) = Repeat(PersistenceStep, Len(persisted))
        /\ \A s \in DOMAIN persisted :
             /\ DOMAIN persisted[s] = 1 .. NFIELD
             /\ persisted[s] = Reference(stepData[s])
        /\ Count(trace[0], "output") > 0 =>
             /\ \A f \in 1 .. NFIELD : Count(trace[0], FieldNames[f]) = 1
             /\ AllBefore(trace[0], Range(FieldNames), {"output"})

\* two ranks; rank 1 added rows to a slot, so rank 0's vector before the
\* reduction differs from the sum that rank 0 has persisted
C11_Witness ==
    /\ pipeline = "diffusion" /\ comm_size = 2
    /\ Returned(0) /\ Len(persisted) = istep[0] /\ istep[0] >= 1
    /\ istep[1] = istep[0] - 1 /\ pc[1] = "post"
    /\ bins[1][1][0] > 0
    /\ persisted[istep[0]][1][0] > bins[1][1][0]

\* the BeginStep calls of rank r so far that returned OK
NumReady(r) == Cardinality({k \in 1 .. ncall[r] : src[k] = "OK"})

\* C12: the number of snapshots persisted equals rank 0's istep at all times
\* and, whenever rank 0 is outside step(), the number of its BeginStep calls
\* that returned OK; no rank other than 0 calls output().
C12_OneSnapshotPerReadyStep ==
    pipeline = "diffusion" =>
        /\ Len(persisted) = istep[0]
        /\ pc[0] \in {"call", "done", "finalized"} => Len(persisted) = NumReady(0)
        /\ \A r \in Workers \ {0} : Count(trace[r], "output") = 0

\* both ranks have returned from one Ready and one NotReady call
C12_Witness ==
    /\ pipeline = "diffusion" /\ comm_size = 2
    /\ \A r \in Workers : pc[r] = "call" /\ ncall[r] = 2 /\ istep[r] = 1
    /\ "NotReady" \in Range(src)
    /\ Len(persisted) = 1

Declaration ==
    <<WriterCall("DeclareIO", "diffusion")>> \o DefineVariables
        \o <<WriterCall("Open", "xgc.diffusion.bp")>>

\* C13: the calls on the sink begin, in the first output() call, with
\* DeclareIO, the ten DefineVariable calls and Open, before any BeginStep or
\* Put; no later call declares, defines or opens again; every persisted
\* vector has ntriangle entries.
C13_DeclaredOnce ==
    pipeline = "diffusion" =>
        /\ first = (wlog = <<>>)
        /\ (wlog = <<>>) = (persisted = <<>>)
        /\ wlog # <<>> =>
             /\ SubSeq(wlog, 1, Len(Declaration)) = Declaration
             /\ \A k \in (Len(Declaration) + 1) .. Len(wlog) : IsStepCall(wlog[k])
        /\ \A s \in DOMAIN persisted : \A f \in DOMAIN persisted[s] :
             DOMAIN persisted[s][f] = 0 .. (ntriangle - 1)

\* output() has been called twice
C13_Witness ==
    /\ pipeline = "diffusion"
    /\ Len(persisted) = 2
    /\ Len(wlog) = Len(Declaration) + 2 * Len(PersistenceStep)

\* rank r is outside step(): before its first call or after a return
Outside(r) == pc[r] \in {"call", "done", "finalized"}

\* C14: istep is 0 before the first step() call; a step() call adds exactly 1
\* to it when its BeginStep returned OK, at the end of the call, and leaves
\* it alone otherwise; no step lowers it; two ranks that have returned from
\* the same number of calls hold the same istep.
C14_StepCounter ==
    /\ [](\A r \in Workers :
            /\ istep[r] = (IF Outside(r) THEN NumReady(r) ELSE NumReady(r) - 1)
            /\ \A q \in Workers :
                 (Outside(r) /\ Outside(q) /\ ncall[r] = ncall[q]) => istep[r] = istep[q])
    /\ [][\A r \in Workers :
            /\ istep'[r] \in {istep[r], istep[r] + 1}
            /\ istep'[r] = istep[r] + 1 =>
                 status[r] = "OK" /\ pc[r] = "post" /\ pc'[r] = "call"]_vars

\* two heatload ranks have both returned from a NotReady call and a Ready one
C14_Witness ==
    /\ pipeline = "heatload" /\ comm_size = 2
    /\ \A r \in Workers : Outside(r) /\ ncall[r] = 2 /\ istep[r] = 1
    /\ "NotReady" \in Range(src)

IsPrefix(a, b) == Len(a) <= Len(b) /\ SubSeq(b, 1, Len(a)) = a

\* C15: on every rank iesc_db and eesc_db have istep entries (the number of
\* OK steps when the rank is outside step()); a step of the program leaves
\* a history as it is or appends one entry, that step's escaped set, to it.
C15_HistoryAppendOnly ==
    /\ [](\A r \in Workers : \A sp \in Species :
            pipeline = "heatload" =>
                /\ Len(db[r][sp]) = istep[r]
                /\ Outside(r) => Len(db[r][sp]) = NumReady(r))
    /\ [][\A r \in Workers : \A sp \in Species :
            /\ IsPrefix(db[r][sp], db'[r][sp])
            /\ Len(db'[r][sp]) <= Len(db[r][sp]) + 1
            /\ Len(db'[r][sp]) = Len(db[r][sp]) + 1 =>
                 /\ db'[r][sp][Len(db'[r][sp])] = esc[r][sp]
                 /\ istep'[r] = istep[r] + 1]_vars

\* a rank holds two different escaped-ion sets in its history
C15_Witness ==
    /\ pipeline = "heatload"
    /\ \E r \in Workers :
         /\ Outside(r) /\ Len(db[r]["i"]) = 2
         /\ db[r]["i"][1] # db[r]["i"][2]
         /\ db[r]["i"][1] # EmptyMap

Ended == \E k \in DOMAIN src : src[k] = "EndOfStream"

\* rank r has left its loop of step() calls
LoopLeftBy(r) == pc[r] \in {"done", "finalized"}

\* C16: a loop ends only on EndOfStream; a rank whose call returned NotReady
\* stays in its loop with istep unchanged; every run reaches a state in which
\* either the stream has reported EndOfStream and every rank's loop has
\* ended, all ranks having made the same calls and completed the same number
\* of steps, or no rank's loop has ended and every rank has gone on calling
\* step() up to the call bound.
C16_LoopTermination ==
    /\ [](\A r \in Workers :
            /\ LoopLeftBy(r) <=> status[r] = "EndOfStream"
            /\ LoopLeftBy(r) => Ended)
    /\ [][\A r \in Workers :
            (ncall'[r] = ncall[r] + 1 /\ status'[r] = "NotReady") =>
                pc'[r] = "call" /\ istep'[r] = istep[r]]_vars
    /\ <>(\A r \in Workers :
            IF Ended
            THEN LoopLeftBy(r) /\ ncall[r] = Len(src) /\ istep[r] = NumReady(r)
            ELSE pc[r] = "call" /\ ncall[r] = MaxCalls)

\* two ranks have left their loops after a NotReady call and EndOfStream
C16_Witness ==
    /\ comm_size = 2
    /\ \A r \in Workers : pc[r] = "done"
    /\ src = <<"NotReady", "EndOfStream">>

\* the confined particles of the blocks idx of a block list, block by block
RECURSIVE ConfinedOfBlocks(_, _)
ConfinedOfBlocks(block_list, idx) ==
    IF idx = <<>> THEN <<>>
    ELSE LET block == block_list[Head(idx) + 1]
             ptls == [k \in 1 .. Len(block.gid) |-> Particle(block, k - 1)]
             Confined(ptl) == ~ Flags(ptl.flag).escaped
         IN  SelectSeq(ptls, Confined) \o ConfinedOfBlocks(block_list, Tail(idx))

\* the Ready step rank r is in, or has last completed (1-based)
StepOf(r) == IF Outside(r) THEN istep[r] ELSE istep[r] + 1

\* C19: once a rank of Heatload has filled idiv / ediv in a Ready step, the
\* list holds the non-escaped particles of the blocks of that rank's own
\* range in that step, in block and index order, and nothing else; before
\* that point of the call, and after a call that was not Ready, it is empty.
C19_ConfinedListIsLocal ==
    pipeline = "heatload" =>
        \A r \in Workers : \A sp \in Species :
            IF status[r] = "OK" /\ Count(trace[r], "push_back_div") > 0
            THEN div[r][sp] = ConfinedOfBlocks(stepData[StepOf(r)][sp], iter[r][sp])
            ELSE div[r][sp] = <<>>

\* rank 0 is in its second Ready step; both ranks hold confined electrons,
\* and rank 0 had a confined ion in the first step and another one now
C19_Witness ==
    /\ pipeline = "heatload" /\ comm_size = 2
    /\ istep[0] = 2 /\ Outside(0) /\ status[0] = "OK"
    /\ div[0]["e"] # <<>> /\ div[1]["e"] # <<>>
    /\ stepData[1]["i"] # <<>>
    /\ ConfinedOfBlocks(stepData[1]["i"], <<0>>) # <<>>
    /\ div[0]["i"] # <<>>
    /\ div[0]["i"] # ConfinedOfBlocks(stepData[1]["i"], <<0>>)

\* the state of the reader's selection after the calls tr, starting in st:
\* a block is selected, its data requested, the requests performed, (in
\* Diffusion) the table mirrored, and only then the fetched data read
RECURSIVE FetchState(_, _)
FetchState(tr, st) ==
    IF tr = <<>> THEN st
    ELSE LET e == Head(tr)
             next ==
                 CASE e \notin Consumption -> st
                   [] e = "SetBlockSelection" /\ st \in {"idle", "mirrored"} -> "selected"
                   [] e = "Get" /\ st = "selected" -> "requested"
                   [] e = "PerformGets" /\ st = "requested" -> "performed"
                   [] e = "dup.Put" /\ st = "performed" /\ pipeline = "diffusion" -> "mirrored"
                   [] e = "rows" /\ st = "mirrored" -> "idle"
                   [] e = "insert" /\ st = "performed" /\ pipeline = "heatload" -> "idle"
                   [] OTHER -> "bad"
         IN  FetchState(Tail(tr), next)

\* the blocks of rank r's range with a nonzero count, over all variables
NonEmptyBlocks(r) ==
    UNION {{<<v, k>> : k \in {j \in Range(iter[r][v]) :
                                  Product(stepData[StepOf(r)][v][j + 1].Count) > 0}} :
           v \in DOMAIN iter[r]}

\* C20: in a Ready step a rank's calls are, block after block,
\* SetBlockSelection, Get, PerformGets and then the read of the fetched data
\* (the row loop, the inserts), in Diffusion with dup_writer.Put between
\* PerformGets and the row loop; there is one such group per block of the
\* rank's range with a nonzero count and none for a block of count zero.
C20_FetchBeforeRead ==
    \A r \in Workers :
        status[r] = "OK" =>
            /\ FetchState(trace[r], "idle") = "idle"
            /\ \A e \in Consumption :
                 Count(trace[r], e) \in {0, Cardinality(NonEmptyBlocks(r))}
            /\ Count(trace[r], "PerformGets") = Cardinality(NonEmptyBlocks(r))
            /\ Count(trace[r], IF pipeline = "diffusion" THEN "rows" ELSE "insert")
                 = Cardinality(NonEmptyBlocks(r))
            /\ Count(trace[r], "dup.Put")
                 = (IF pipeline = "diffusion" THEN Cardinality(NonEmptyBlocks(r)) ELSE 0)

\* a Diffusion rank's range held a block of count zero and a block with rows
C20_Witness ==
    /\ pipeline = "diffusion"
    /\ \E r \in Workers :
         /\ status[r] = "OK"
         /\ Len(iter[r].table) = 2
         /\ Cardinality(NonEmptyBlocks(r)) = 1
         /\ Count(trace[r], "rows") = 1

\* the five flat columns of a species are not index-aligned
Misaligned(c) ==
    \/ Len(c.flag) # Len(c.gid) \/ Len(c.step) # Len(c.gid) \/ Len(c.dw) # Len(c.gid)
    \/ Len(c.phase) # NPHASE * Len(c.gid)

HistorySteps == {"iesc_db.push_back", "eesc_db.push_back", "heatload_calc_i",
                 "heatload_calc_e", "istep++"}

\* C17: a Ready step of Heatload in which a rank's flat columns of a species
\* are misaligned stops there: that rank builds no Particle from them,
\* appends nothing to iesc_db / eesc_db, does not call heatload_calc and
\* does not advance istep.
C17_MisalignedIsFatal ==
    pipeline = "heatload" =>
        \A r \in Workers :
            (status[r] = "OK" /\ \E sp \in Species : Misaligned(loc[r][sp])) =>
                /\ Count(trace[r], "push_back_div") = 0
                /\ \A ev \in HistorySteps : Count(trace[r], ev) = 0
                /\ \A sp \in Species : Len(db[r][sp]) < NumReady(r)
                /\ istep[r] < NumReady(r)

\* the ids outside [0, ntriangle) among all rows of a published step
BadIds(data) == OutOfRangeIds(data.table, [k \in 1 .. Len(data.table) |-> k - 1])

\* C18: a row with a leading id outside [0, ntriangle) stops the step: no
\* rank has used such an id as an index on its ten vectors, and no snapshot
\* has been persisted for a step that holds such a row.
C18_OutOfRangeIsFatal ==
    pipeline = "diffusion" =>
        /\ \A r \in Workers : oob[r] = {}
        /\ \A s \in DOMAIN persisted : BadIds(stepData[s]) = {}

CalcEvents == {"heatload_calc_i", "heatload_calc_e"}

\* C21: on every rank of Heatload, heatload_calc is called only in a Ready
\* step, once per species, after the block loops, every gather of both
\* species, both ptlmap_sync calls, the loops that fill idiv / ediv and both
\* push_back calls; the history it is handed has istep + 1 entries, the last
\* one being the escaped set of this step, and the list it is handed is the
\* one built from the rank's blocks of this step.
C21_CalcAfterSync ==
    pipeline = "heatload" =>
        \A r \in Workers : \A sp \in Species :
            IF \E ev \in CalcEvents : Count(trace[r], ev) > 0
            THEN /\ status[r] = "OK"
                 /\ \A c \in Range(HeatCollectives) : Count(trace[r], c) = 1
                 /\ AllBefore(trace[r],
                              Consumption \cup Range(HeatCollectives)
                                  \cup {"push_back_div", "iesc_db.push_back",
                                        "eesc_db.push_back"},
                              CalcEvents)
                 /\ calc[r][sp].n = 1
                 /\ Len(calc[r][sp].db) = calc[r][sp].istep + 1
                 /\ calc[r][sp].istep = StepOf(r) - 1
                 /\ calc[r][sp].db = db[r][sp]
                 /\ calc[r][sp].db[Len(calc[r][sp].db)] = esc[r][sp]
                 /\ calc[r][sp].div = div[r][sp]
                 /\ calc[r][sp].div
                      = ConfinedOfBlocks(stepData[StepOf(r)][sp], iter[r][sp])
            ELSE calc[r][sp] = NoCall

\* on two ranks, a rank has called heatload_calc in its second Ready step
\* with a non-empty list and a history of two different escaped sets
C21_Witness ==
    /\ pipeline = "heatload" /\ comm_size = 2
    /\ \E r \in Workers : \E sp \in Species :
         /\ calc[r][sp].n = 1 /\ calc[r][sp].istep = 1
         /\ calc[r][sp].div # <<>>
         /\ calc[r][sp].db[1] # calc[r][sp].db[2]

\* the values heatload_step returned so far
DriverReturns == [k \in DOMAIN drv.calls |-> drv.calls[k].ret]

\* the loop of main has been left
LoopLeft == drv.pc # "call"

\* C22: in main, istep starts at 1, is incremented by one exactly by a
\* returned 0 and never decreases; after a positive value heatload_step is
\* called again with the same istep; the loop is left exactly when -1 is
\* returned, and heatload_finalize is then called, once.
C22_DriverLoop ==
    /\ [](/\ drv.istep = 1 + Count(DriverReturns, 0)
          /\ \A k \in DOMAIN drv.calls :
                drv.calls[k].arg
                    = 1 + Count(SubSeq(DriverReturns, 1, k - 1), 0)
          /\ LoopLeft <=> (\E k \in DOMAIN drv.calls : drv.calls[k].ret = -1)
          /\ \A k \in DOMAIN drv.calls :
                drv.calls[k].ret = -1 => k = Len(drv.calls)
          /\ drv.finalized = (IF drv.pc = "returned" THEN 1 ELSE 0))
    /\ [][/\ drv'.istep >= drv.istep
          /\ \A k \in DOMAIN drv'.calls \ DOMAIN drv.calls :
                LET ret == drv'.calls[k].ret
                IN  /\ drv'.calls[k].arg = drv.istep
                    /\ drv'.istep = drv.istep + 1 <=> ret = 0
                    /\ drv'.istep # drv.istep => ret = 0
                    /\ ret > 0 => drv'.pc = "call" /\ drv'.istep = drv.istep
                    /\ drv'.pc = "done" <=> ret = -1
          /\ drv'.finalized # drv.finalized =>
                /\ drv.pc = "done" /\ drv.finalized = 0 /\ drv'.finalized = 1
                /\ drv'.calls = drv.calls]_vars
    /\ (drv.pc = "done") ~> (drv.finalized = 1)

\* main has waited once, advanced once, been handed a value below -1 and
\* gone on, then left the loop on -1 and called heatload_finalize
C22_Witness ==
    /\ drv.finalized = 1 /\ drv.istep = 2
    /\ \E k \in DOMAIN drv.calls : drv.calls[k].ret > 0
    /\ \E k \in DOMAIN drv.calls : drv.calls[k].ret < -1

\* the reader's step cursor on rank r: the Ready steps it was given before
\* the last one
Cursor(r) == NumReady(r) - 1

\* C23: the step index a rank passes to BlocksInfo after a Ready BeginStep is
\* the number of Ready steps the reader gave this rank before, so the blocks
\* it enumerates are those of the step just begun; a NotReady or Ended
\* BeginStep leaves istep and that index as they were.
C23_IndexIsCursor ==
    /\ [](\A r \in Workers :
            IF NumReady(r) = 0 THEN asked[r] = -1
            ELSE /\ asked[r] = Cursor(r)
                 /\ status[r] = "OK" =>
                      \A v \in DOMAIN iter[r] :
                         /\ BlocksInfo(stepData, v, asked[r]) = stepData[StepOf(r)][v]
                         /\ iter[r][v] = LET s == split_vector(
                                                 Len(stepData[StepOf(r)][v]), comm_size, r)
                                         IN  LoopIndices(s[1], s[2]))
    /\ [][\A r \in Workers :
            ncall'[r] = ncall[r] + 1 =>
                IF status'[r] = "OK"
                THEN asked'[r] = istep[r] /\ asked'[r] = NumReady(r)
                ELSE asked'[r] = asked[r] /\ istep'[r] = istep[r]]_vars

\* a rank is inside a Ready step that came after a NotReady call: it asked
\* for the blocks of step 0 on its second call, and they were there
C23_Witness ==
    \E r \in Workers :
        /\ status[r] = "OK" /\ ~Outside(r)
        /\ ncall[r] = 2 /\ src[1] = "NotReady"
        /\ asked[r] = 0
        /\ \E v \in DOMAIN iter[r] : iter[r][v] # <<>>

\* the Close calls finalize() made on the named engine of rank r
ClosesOf(r, engine) ==
    {k \in DOMAIN closed[r] : closed[r][k].engine = engine}

\* C24: on dup_writer of every Diffusion rank, BeginStep is never called
\* while a step begun earlier has not been ended, EndStep is never called
\* without a step begun, and Close finds no step left open, whatever
\* statuses reader.BeginStep returned.
C24_DupStepsPaired ==
    \A r \in Workers :
        /\ dupOpen[r] \in {0, 1}
        /\ \A k \in ClosesOf(r, "dup_writer") : closed[r][k].unended = 0

\* C25: when Diffusion::finalize calls writer.Close() on rank 0, output()
\* has opened writer before, in every run.
C25_CloseAfterOpen ==
    \A k \in ClosesOf(0, "writer") : closed[0][k].opened

\* some rank that can take a step does take one: every rank is a running
\* process, and a collective that all ranks have entered completes
FairSpec == Spec /\ WF_vars(Next)
====
